---- MODULE Spec2Model ----
(***************************************************************************)
(* The build-and-signal bridge of BeamTaxiCount-Build: the CodePipeline    *)
(* (Source -> Build -> Copy{CopyAction, InvokeAction}), its GitHub webhook, *)
(* the notifier lambda and the CloudFormation wait condition it signals.   *)
(***************************************************************************)
EXTENDS Integers, Sequences, FiniteSets, TLC

VARIABLES
  stack,     \* the CdkStack: its props, the constructs made so far, its pc
  clock,     \* seconds since the wait condition was created
  gate,      \* the WaitCondition resource: state, recorded status and payload
  gateLog,   \* the signals PUT to the wait handle URL, in arrival order
  trigger,   \* per start request (pipeline creation, webhook deliveries):
             \* its kind, its notification and so whether it started a run
  act,       \* per execution: the state of each pipeline action
  lam        \* per execution: the notifier lambda's invocation (pc and effects)

vars == <<stack, clock, gate, gateLog, trigger, act, lam>>

----------------------------------------------------------------------------
\* Bounds of the model
MaxExec == 2        \* start requests (and so executions) in one behaviour
TickStep == 100     \* seconds the clock advances in one step
MaxSignals == 3     \* signals PUT to the handle in GateSpec

\* Program constants
Count == 1            \* WaitCondition.Properties.Count
GateTimeout == 300    \* WaitCondition.Properties.Timeout

Executions == 1..MaxExec

----------------------------------------------------------------------------
\* AWS::CodePipeline::Pipeline.Properties.Stages
Stages ==
  << [Name |-> "Source",
      Actions |-> << [Name |-> "SourceAction", RunOrder |-> 1] >>],
     [Name |-> "Build",
      Actions |-> << [Name |-> "BuildAction", RunOrder |-> 1] >>],
     [Name |-> "Copy",
      Actions |-> << [Name |-> "CopyAction", RunOrder |-> 1],
                     [Name |-> "InvokeAction", RunOrder |-> 2] >>] >>

ActionNames ==
  UNION { { Stages[s].Actions[i].Name : i \in DOMAIN Stages[s].Actions } :
          s \in DOMAIN Stages }

\* The place of an action in the pipeline: its stage's index and its RunOrder
StageOf(a) ==
  CHOOSE s \in DOMAIN Stages :
    \E i \in DOMAIN Stages[s].Actions : Stages[s].Actions[i].Name = a

RunOrderOf(a) ==
  LET st == Stages[StageOf(a)]
      i == CHOOSE j \in DOMAIN st.Actions : st.Actions[j].Name = a
  IN st.Actions[i].RunOrder

\* Mutant of Precedes: RunOrder ignored, the actions of a stage start together
PrecedesStageOnly(b, a) == StageOf(b) < StageOf(a)

\* b must have succeeded before a may start: an earlier stage, or the same
\* stage and a lower RunOrder
Precedes(b, a) ==
  \/ StageOf(b) < StageOf(a)
  \/ StageOf(b) = StageOf(a) /\ RunOrderOf(b) < RunOrderOf(a)

\* SourceAction.Configuration and the webhook's properties
Branch == "master"
PollForSourceChanges == FALSE

\* What can start an execution: creating the pipeline, the webhook and, when
\* enabled, polling the repository
StartKinds ==
  {"created", "webhook"} \cup (IF PollForSourceChanges THEN {"poll"} ELSE {})
SecretToken == "GithubOauthToken"
MatchEquals == << "refs/heads/", "{Branch}" >>

\* The webhook filter's MatchEquals with {Branch} replaced by the target
\* action's Branch
ResolveMatchEquals ==
  LET part(x) == IF x = "{Branch}" THEN Branch ELSE x
  IN part(MatchEquals[1]) \o part(MatchEquals[2])

\* GITHUB_HMAC: the signature GitHub computes over the raw body with a key
HMAC(key, body) == << "hmac", key, body >>

\* Mutant of WebhookAccepts: the signature is not verified
WebhookAcceptsUnsigned(n) == n.body.ref = ResolveMatchEquals

Authenticated(n) == n.signature = HMAC(SecretToken, n.body)
FilterMatch(n) == n.body.ref = ResolveMatchEquals
WebhookAccepts(n) == Authenticated(n) /\ FilterMatch(n)

\* What the webhook endpoint can be sent
Refs == { "refs/heads/master", "refs/heads/feature-x" }
Keys == { SecretToken, "wrong-secret" }
Notification(ref, key) ==
  [body |-> [ref |-> ref], signature |-> HMAC(key, [ref |-> ref])]

NoNotification == [body |-> [ref |-> ""], signature |-> << >>]
NoTrigger == [kind |-> "none", notification |-> NoNotification]

\* The id of the job CodePipeline hands to the InvokeAction of an execution
JobId(e) == << "job", e >>
NoJob == << >>

----------------------------------------------------------------------------
\* The wait condition (Count 1, Timeout 300) on the wait handle

NoPayload == [Status |-> "NONE", Reason |-> "", UniqueId |-> NoJob, Data |-> ""]

GateInit ==
  [state |-> "waiting", status |-> "NONE", payload |-> NoPayload, successes |-> 0]

\* Mutant of GateSignal: the last signal wins
GateSignalLastWins(g, data) ==
  [g EXCEPT !.state = "fired", !.status = data.Status, !.payload = data]

\* Mutant of GateSignal: a fired gate keeps its status but records the payload
\* of every later signal
GateSignalRecordsLater(g, data) ==
  IF g.state = "expired" THEN g
  ELSE IF g.state = "fired" THEN [g EXCEPT !.payload = data]
  ELSE [g EXCEPT !.state = "fired", !.status = data.Status, !.payload = data,
                 !.successes = @ + 1]

\* A signal arriving at the handle while the condition is being waited on: a
\* FAILURE fails it at once, the Count-th SUCCESS completes it; afterwards the
\* resource is no longer evaluated
GateSignal(g, data) ==
  IF g.state # "waiting" THEN g
  ELSE IF data.Status = "FAILURE"
    THEN [g EXCEPT !.state = "fired", !.status = "FAILURE", !.payload = data]
  ELSE IF g.successes + 1 >= Count
    THEN [g EXCEPT !.state = "fired", !.status = "SUCCESS", !.payload = data,
                   !.successes = @ + 1]
  ELSE [g EXCEPT !.successes = @ + 1]

\* Mutant of GateExpire: the timeout is never applied
GateExpireNever(g, now) == g

\* The timeout: still waiting when Timeout seconds have passed
GateExpire(g, now) ==
  IF g.state = "waiting" /\ now >= GateTimeout
    THEN [g EXCEPT !.state = "expired", !.status = "TIMEOUT"]
    ELSE g

----------------------------------------------------------------------------
\* CdkStack: the constructor of the stack, by its props

\* An optional boolean of StackProps
Flags == { "true", "false", "undefined" }
Truthy(v) == v = "true"

StackProps ==
  [build : Flags, demoInfrastructure : Flags, completeInfrastructure : Flags]

NoWaitCondition == "none"

\* A construct: its id, its class, the wait condition it owns and the
\* buildSuccessWaitCondition it is given
Construct(id, type) ==
  [id |-> id, type |-> type, owns |-> NoWaitCondition,
   buildSuccessWaitCondition |-> NoWaitCondition]

\* const consumerBuild = new GithubBuildPipeline(this, ...)
consumerBuild ==
  [Construct("BeamTaxiConsumerBuildPipeline", "GithubBuildPipeline")
     EXCEPT !.owns = "BeamTaxiConsumerBuildPipeline/WaitCondition"]

\* A construct given buildSuccessWaitCondition: consumerBuild's
Waiting(id, type) ==
  [Construct(id, type) EXCEPT !.buildSuccessWaitCondition = consumerBuild.owns]

\* Up to and including the build pipeline
BuildConstructs ==
  << Construct("KeyName", "CfnParameter"),
     Construct("VPC", "Vpc"),
     Construct("Bucket", "Bucket"),
     Construct("S3Bucket", "CfnOutput"),
     Construct("GithubOauthToken", "CfnParameter"),
     Construct("GithubUser", "CfnParameter"),
     consumerBuild >>

\* After the first return
DemoConstructs ==
  << Construct("EnrichEventsLambda", "Function"),
     Construct("KinesisReplayInfrastructure", "KinesisReplay"),
     Construct("EmrInfrastructure", "EmrInfrastructure") >>

OutputConstructs ==
  << Construct("KinesisReplayCommand", "CfnOutput"),
     Construct("StartFlinkApplication", "CfnOutput") >>

\* After the second return
CompleteConstructs ==
  << Construct("InputStream", "Stream"),
     Construct("Dashboard", "BeamDashboard"),
     Waiting("FirehoseInfrastructure", "FirehoseInfrastructure"),
     Waiting("FlinkInfrastructure", "KinesisAnalyticsJava") >>

\* Mutant of CdkStack: the second return is missing
CdkStackNoSecondReturn(props) ==
  IF ~(Truthy(props.demoInfrastructure) \/ Truthy(props.completeInfrastructure))
    THEN BuildConstructs
    ELSE BuildConstructs \o DemoConstructs \o CompleteConstructs
           \o OutputConstructs

\* The constructs the constructor makes, in order
CdkStack(props) ==
  IF ~(Truthy(props.demoInfrastructure) \/ Truthy(props.completeInfrastructure))
    THEN BuildConstructs
  ELSE IF ~Truthy(props.completeInfrastructure)
    THEN BuildConstructs \o DemoConstructs \o OutputConstructs
  ELSE BuildConstructs \o DemoConstructs \o CompleteConstructs
         \o OutputConstructs

\* The stack the template was synthesized from: the build pipeline only
BuildProps ==
  [build |-> "true", demoInfrastructure |-> "undefined",
   completeInfrastructure |-> "undefined"]

Deployed ==
  [props |-> BuildProps, constructs |-> CdkStack(BuildProps), pc |-> "returned"]

----------------------------------------------------------------------------
\* The pipeline's executions

Started(e) == trigger[e].kind \in StartKinds

ExecStatus(e) ==
  IF ~Started(e) THEN "none"
  ELSE IF \E a \in ActionNames : act[e][a] = "failed" THEN "failed"
  ELSE IF \A a \in ActionNames : act[e][a] = "succeeded" THEN "succeeded"
  ELSE "running"

\* Mutant of Runnable: a failed predecessor does not stop the next action
RunnableAfterFailure(e, a) ==
  /\ trigger[e].kind \in StartKinds
  /\ act[e][a] = "pending"
  /\ \A b \in ActionNames :
       Precedes(b, a) => act[e][b] \in {"succeeded", "failed"}

\* An action may start: the execution exists, the action has not run and all
\* that precedes it has succeeded
Runnable(e, a) ==
  /\ Started(e)
  /\ act[e][a] = "pending"
  /\ \A b \in ActionNames : Precedes(b, a) => act[e][b] = "succeeded"

LamInit ==
  [pc |-> "idle", job_id |-> NoJob, response |-> "none", e |-> "",
   signals |-> 0, successes |-> 0, failures |-> 0, message |-> ""]

Init ==
  /\ stack = Deployed
  /\ clock = 0
  /\ gate = GateInit
  /\ gateLog = << >>
  /\ trigger = [e \in Executions |-> NoTrigger]
  /\ act = [e \in Executions |-> [a \in ActionNames |-> "pending"]]
  /\ lam = [e \in Executions |-> LamInit]

\* A new execution: its source action starts running
NewExecution(e, kind, n) ==
  /\ trigger' = [trigger EXCEPT ![e] = [kind |-> kind, notification |-> n]]
  /\ act' = [act EXCEPT ![e]["SourceAction"] = "running"]

\* Creating the pipeline starts its first execution
StartPipelineExecution ==
  /\ trigger[1].kind = "none"
  /\ NewExecution(1, "created", NoNotification)
  /\ UNCHANGED <<stack, clock, gate, gateLog, lam>>

\* The webhook (registered once the pipeline exists) receives a notification:
\* it starts the pipeline when the HMAC verifies and the filter matches, and
\* rejects the notification otherwise
Webhook(e, ref, key) ==
  LET n == Notification(ref, key) IN
  /\ e > 1
  /\ trigger[e - 1].kind # "none"
  /\ trigger[e].kind = "none"
  /\ IF WebhookAccepts(n)
       THEN NewExecution(e, "webhook", n)
       ELSE /\ trigger' = [trigger EXCEPT ![e] =
                             [kind |-> "rejected", notification |-> n]]
            /\ UNCHANGED act
  /\ UNCHANGED <<stack, clock, gate, gateLog, lam>>

\* SourceAction, BuildAction and CopyAction are run by their providers
ProviderActions == ActionNames \ {"InvokeAction"}

StartAction(e, a) ==
  /\ Runnable(e, a)
  /\ act' = [act EXCEPT ![e][a] = "running"]
  /\ UNCHANGED <<stack, clock, gate, gateLog, trigger, lam>>

FinishAction(e, a, result) ==
  /\ act[e][a] = "running"
  /\ act' = [act EXCEPT ![e][a] = result]
  /\ UNCHANGED <<stack, clock, gate, gateLog, trigger, lam>>

----------------------------------------------------------------------------
\* The notifier lambda: index.handler(event, context)

Event(e) == [CodePipeline_job |-> [id |-> JobId(e)]]

\* Mutant of SignalData: the UniqueId is a fixed string
SignalDataFixedId(job_id) ==
  [Status |-> "SUCCESS", Reason |-> "Compilation Succeeded",
   UniqueId |-> << "job" >>, Data |-> "Compilation Succeeded"]

\* Mutant of SignalData: the status is FAILURE
SignalDataFailure(job_id) ==
  [Status |-> "FAILURE", Reason |-> "Compilation Failed",
   UniqueId |-> job_id, Data |-> "Compilation Failed"]

SignalData(job_id) ==
  [Status |-> "SUCCESS", Reason |-> "Compilation Succeeded",
   UniqueId |-> job_id, Data |-> "Compilation Succeeded"]

Outcomes == { "ok", "error" }

\* Mutant of handler: the job is reported before the gate is signalled
handlerReportsFirst(e) ==
  /\ Runnable(e, "InvokeAction")
  /\ act' = [act EXCEPT ![e]["InvokeAction"] = "running"]
  /\ lam' = [lam EXCEPT ![e].pc = "put_job_success_result",
                        ![e].job_id = Event(e).CodePipeline_job.id]
  /\ UNCHANGED <<stack, clock, gate, gateLog, trigger>>

\* CodePipeline runs InvokeAction: the handler reads job_id from the event
handler(e) ==
  /\ Runnable(e, "InvokeAction")
  /\ act' = [act EXCEPT ![e]["InvokeAction"] = "running"]
  /\ lam' = [lam EXCEPT ![e].pc = "urlopen",
                        ![e].job_id = Event(e).CodePipeline_job.id]
  /\ UNCHANGED <<stack, clock, gate, gateLog, trigger>>

\* Mutant of urlopen: the call is outside the try, its error ends the handler
urlopenUncaught(e, r) ==
  /\ lam[e].pc = "urlopen"
  /\ IF r = "ok"
       THEN /\ gateLog' = Append(gateLog, SignalData(lam[e].job_id))
            /\ gate' = GateSignal(gate, SignalData(lam[e].job_id))
            /\ lam' = [lam EXCEPT ![e].pc = "put_job_success_result",
                                  ![e].response = "ok",
                                  ![e].signals = @ + 1]
       ELSE /\ UNCHANGED <<gate, gateLog>>
            /\ lam' = [lam EXCEPT ![e].pc = "raised",
                                  ![e].response = "error",
                                  ![e].e = "URLError",
                                  ![e].signals = @ + 1]
  /\ UNCHANGED <<stack, clock, trigger, act>>

\* try: urllib.request.urlopen(PUT data to waitHandleUrl); an error raised
\* here is caught by the except clause
urlopen(e, r) ==
  /\ lam[e].pc = "urlopen"
  /\ IF r = "ok"
       THEN /\ gateLog' = Append(gateLog, SignalData(lam[e].job_id))
            /\ gate' = GateSignal(gate, SignalData(lam[e].job_id))
            /\ lam' = [lam EXCEPT ![e].pc = "put_job_success_result",
                                  ![e].response = "ok",
                                  ![e].signals = @ + 1]
       ELSE /\ UNCHANGED <<gate, gateLog>>
            /\ lam' = [lam EXCEPT ![e].pc = "put_job_failure_result",
                                  ![e].response = "error",
                                  ![e].e = "URLError",
                                  ![e].signals = @ + 1]
  /\ UNCHANGED <<stack, clock, trigger, act>>

\* The execution whose InvokeAction a job id belongs to: CodePipeline applies a
\* reported result to the job named by jobId
JobOwner(job_id) == CHOOSE d \in Executions : JobId(d) = job_id

\* code_pipeline.put_job_success_result(jobId=job_id), still inside the try
put_job_success_result(e, r) ==
  /\ lam[e].pc = "put_job_success_result"
  /\ IF r = "ok"
       THEN /\ act' = [act EXCEPT ![JobOwner(lam[e].job_id)]["InvokeAction"] =
                                     "succeeded"]
            /\ lam' = [lam EXCEPT ![e].pc = "returned",
                                  ![e].successes = @ + 1]
       ELSE /\ UNCHANGED act
            /\ lam' = [lam EXCEPT ![e].pc = "put_job_failure_result",
                                  ![e].e = "ClientError",
                                  ![e].successes = @ + 1]
  /\ UNCHANGED <<stack, clock, gate, gateLog, trigger>>

\* except Exception as e: code_pipeline.put_job_failure_result(jobId=job_id,
\* failureDetails={'message': str(e), ...}); nothing catches what it raises
put_job_failure_result(e, r) ==
  /\ lam[e].pc = "put_job_failure_result"
  /\ IF r = "ok"
       THEN /\ act' = [act EXCEPT ![JobOwner(lam[e].job_id)]["InvokeAction"] =
                                     "failed"]
            /\ lam' = [lam EXCEPT ![e].pc = "returned",
                                  ![e].message = lam[e].e,
                                  ![e].failures = @ + 1]
       ELSE /\ UNCHANGED act
            /\ lam' = [lam EXCEPT ![e].pc = "raised",
                                  ![e].message = lam[e].e,
                                  ![e].failures = @ + 1]
  /\ UNCHANGED <<stack, clock, gate, gateLog, trigger>>

\* A job nobody reported a result for: CodePipeline fails the action
JobTimeout(e) ==
  /\ lam[e].pc = "raised"
  /\ act[e]["InvokeAction"] = "running"
  /\ act' = [act EXCEPT ![e]["InvokeAction"] = "failed"]
  /\ UNCHANGED <<stack, clock, gate, gateLog, trigger, lam>>

----------------------------------------------------------------------------
\* Time passes; the wait condition times out when still waiting at Timeout
Tick ==
  /\ clock < GateTimeout
  /\ clock' = clock + TickStep
  /\ gate' = GateExpire(gate, clock')
  /\ UNCHANGED <<stack, gateLog, trigger, act, lam>>

Next ==
  \/ StartPipelineExecution
  \/ \E e \in Executions, ref \in Refs, key \in Keys : Webhook(e, ref, key)
  \/ \E e \in Executions, a \in ProviderActions : StartAction(e, a)
  \/ \E e \in Executions, a \in ProviderActions,
        result \in {"succeeded", "failed"} : FinishAction(e, a, result)
  \/ \E e \in Executions : handler(e)
  \/ \E e \in Executions, r \in Outcomes : urlopen(e, r)
  \/ \E e \in Executions, r \in Outcomes : put_job_success_result(e, r)
  \/ \E e \in Executions, r \in Outcomes : put_job_failure_result(e, r)
  \/ \E e \in Executions : JobTimeout(e)
  \/ Tick

Spec == Init /\ [][Next]_vars

\* The wait condition's timer is CloudFormation's: time does pass
LiveSpec == Spec /\ WF_vars(Tick)

----------------------------------------------------------------------------
\* The wait handle on its own: any holder of the URL may PUT a signal of
\* either status
SignalStatuses == { "SUCCESS", "FAILURE" }

PutSignal(status, uid) ==
  LET data == [Status |-> status,
               Reason |-> IF status = "SUCCESS" THEN "Compilation Succeeded"
                                                ELSE "Compilation Failed",
               UniqueId |-> uid, Data |-> ""]
  IN /\ Len(gateLog) < MaxSignals
     /\ gateLog' = Append(gateLog, data)
     /\ gate' = GateSignal(gate, data)
     /\ UNCHANGED <<stack, clock, trigger, act, lam>>

GateNext ==
  \/ \E status \in SignalStatuses, e \in Executions : PutSignal(status, JobId(e))
  \/ Tick

GateSpec == Init /\ [][GateNext]_vars

----------------------------------------------------------------------------
\* The constructor on its own, for every StackProps

StackInit ==
  /\ stack \in { [props |-> p, constructs |-> << >>, pc |-> "constructor"] :
                 p \in StackProps }
  /\ clock = 0
  /\ gate = GateInit
  /\ gateLog = << >>
  /\ trigger = [e \in Executions |-> NoTrigger]
  /\ act = [e \in Executions |-> [a \in ActionNames |-> "pending"]]
  /\ lam = [e \in Executions |-> LamInit]

\* The constructor makes its next construct
NewConstruct ==
  /\ stack.pc = "constructor"
  /\ Len(stack.constructs) < Len(CdkStack(stack.props))
  /\ stack' = [stack EXCEPT !.constructs =
                 Append(@, CdkStack(stack.props)[Len(@) + 1])]
  /\ UNCHANGED <<clock, gate, gateLog, trigger, act, lam>>

\* The constructor returns
Return ==
  /\ stack.pc = "constructor"
  /\ Len(stack.constructs) = Len(CdkStack(stack.props))
  /\ stack' = [stack EXCEPT !.pc = "returned"]
  /\ UNCHANGED <<clock, gate, gateLog, trigger, act, lam>>

StackNext == NewConstruct \/ Return

StackSpec == StackInit /\ [][StackNext]_vars

----------------------------------------------------------------------------
\* Properties

Finished(e) == lam[e].pc \in {"returned", "raised"}

\* C1: the gate is single-fire. Once it is fired or expired no further signal
\* changes its state, status or payload, and a fired gate holds the first
\* signal received, whatever the later signals (success or failure) are.
C1_SingleFire ==
  [][ /\ gate.state # "waiting" => gate' = gate
      /\ gate'.state = "fired" =>
           /\ gate'.payload = Head(gateLog')
           /\ gate'.status = Head(gateLog').Status ]_vars

\* A fired gate that has since received a signal of the other status
C1_Witness ==
  /\ gate.state = "fired"
  /\ Len(gateLog) >= 2
  /\ gateLog[2].Status # gateLog[1].Status

\* C2: the gate never waits forever. It eventually leaves waiting, it is never
\* waiting once Timeout seconds have passed, and when the timeout is reached
\* with the gate still waiting (no signal came) it becomes expired.
C2_TimeoutExpires ==
  /\ <>(gate.state # "waiting")
  /\ [](clock >= GateTimeout => gate.state # "waiting")
  /\ [](clock >= GateTimeout /\ gateLog = << >> => gate.state = "expired")
  /\ [][gate.state = "waiting" /\ clock' >= GateTimeout =>
          gate'.state = "expired"]_vars

\* The gate expired while an execution was still running
C2_Witness ==
  /\ gate.state = "expired"
  /\ gateLog = << >>
  /\ \E e \in Executions : ExecStatus(e) = "running"

\* C3: an execution whose Build failed still runs Notify (it has run, or can
\* start), and Notify when finished has sent exactly one signal, of status
\* FAILURE.
C3_NotifyAfterBuildFailure ==
  \A e \in Executions :
    act[e]["BuildAction"] = "failed" =>
      \/ Runnable(e, "InvokeAction")
      \/ /\ lam[e].pc # "idle"
         /\ Finished(e) =>
              /\ lam[e].signals = 1
              /\ \E k \in DOMAIN gateLog :
                   /\ gateLog[k].Status = "FAILURE"
                   /\ gateLog[k].UniqueId = JobId(e)

\* C4: the signal Notify delivers comes from an execution whose Build and Copy
\* succeeded, has Status SUCCESS and carries that execution's job id as its
\* UniqueId; every signal at the handle is such a signal.
C4_SuccessSignal ==
  /\ \A e \in Executions :
       lam[e].response = "ok" =>
         /\ act[e]["BuildAction"] = "succeeded"
         /\ act[e]["CopyAction"] = "succeeded"
         /\ lam[e].signals = 1
         /\ \E k \in DOMAIN gateLog :
              /\ gateLog[k].Status = "SUCCESS"
              /\ gateLog[k].UniqueId = JobId(e)
  /\ \A k \in DOMAIN gateLog :
       /\ gateLog[k].Status = "SUCCESS"
       /\ \E e \in Executions :
            /\ gateLog[k].UniqueId = JobId(e)
            /\ lam[e].response = "ok"

\* Build and Copy succeeded and the gate fired on that execution's signal
C4_Witness ==
  \E e \in Executions :
    /\ act[e]["BuildAction"] = "succeeded"
    /\ act[e]["CopyAction"] = "succeeded"
    /\ gate.state = "fired"
    /\ gate.status = "SUCCESS"
    /\ gate.payload.UniqueId = JobId(e)

\* C5: a signal that could not be delivered does not abort the job report.
\* The handler goes on to report, the report is put_job_failure_result with
\* the captured error as its message, and put_job_success_result is called
\* only after urlopen returned a response.
C5_SignalFailureReported ==
  \A e \in Executions :
    /\ lam[e].successes > 0 => lam[e].response = "ok"
    /\ lam[e].response = "error" =>
         /\ lam[e].pc \in {"put_job_failure_result", "returned", "raised"}
         /\ lam[e].successes = 0
         /\ Finished(e) => lam[e].failures = 1 /\ lam[e].message = "URLError"

\* The signal failed and the job was reported failed
C5_Witness ==
  \E e \in Executions :
    /\ lam[e].response = "error"
    /\ lam[e].pc = "returned"
    /\ lam[e].failures = 1
    /\ act[e]["InvokeAction"] = "failed"

\* C6: a finished handler has made exactly one signal attempt and exactly one
\* report to CodePipeline, success or failure and never both.
C6_ExactlyOneReport ==
  \A e \in Executions :
    Finished(e) =>
      /\ lam[e].signals = 1
      /\ lam[e].successes + lam[e].failures = 1

\* C7: the webhook starts an execution only for a notification signed with
\* the secret token whose ref is refs/heads/<Branch>. A notification failing
\* either check is rejected and its request never runs any action; only the
\* pipeline's creation and accepted notifications start executions.
C7_IntakeChecks ==
  \A e \in Executions :
    LET n == trigger[e].notification
        valid == /\ n.signature = HMAC(SecretToken, n.body)
                 /\ n.body.ref = "refs/heads/" \o Branch
    IN /\ trigger[e].kind = "webhook" => valid
       /\ trigger[e].kind \in {"webhook", "rejected"} /\ ~valid =>
            trigger[e].kind = "rejected"
       /\ trigger[e].kind = "rejected" =>
            /\ \A a \in ActionNames : act[e][a] = "pending"
            /\ lam[e].pc = "idle"
       /\ (\E a \in ActionNames : act[e][a] # "pending") =>
            trigger[e].kind \in {"created", "webhook"}

\* A notification for the configured branch with a bad signature was rejected
C7_Witness ==
  \E e \in Executions :
    /\ trigger[e].kind = "rejected"
    /\ trigger[e].notification.body.ref = "refs/heads/master"
    /\ trigger[e].notification.signature # HMAC(SecretToken, [ref |-> "refs/heads/master"])

\* C8: no invocation of the handler ends with an uncaught error.
C8_NeverThrows ==
  \A e \in Executions : lam[e].pc # "raised"

\* C9: within an execution at most one action runs at a time and the actions
\* run in order: Build only after Source succeeded, Copy only after Build
\* succeeded, InvokeAction only after CopyAction finished.
C9_Sequential ==
  \A e \in Executions :
    /\ Cardinality({a \in ActionNames : act[e][a] = "running"}) <= 1
    /\ act[e]["BuildAction"] # "pending" => act[e]["SourceAction"] = "succeeded"
    /\ act[e]["CopyAction"] # "pending" => act[e]["BuildAction"] = "succeeded"
    /\ act[e]["InvokeAction"] # "pending" => act[e]["CopyAction"] = "succeeded"

\* The notifier runs, after the three actions before it
C9_Witness ==
  \E e \in Executions :
    /\ act[e]["InvokeAction"] = "running"
    /\ lam[e].pc = "put_job_success_result"

\* C10: a failure halts the execution. No action after a failed one (other
\* than Notify) has run, the execution's status is failed, and once failed
\* neither the status nor any action of the execution changes.
C10_FailureHalts ==
  [][ \A e \in Executions :
        /\ \A a, b \in ActionNames :
             (act[e][a] = "failed" /\ Precedes(a, b) /\ b # "InvokeAction") =>
               act[e][b] = "pending" /\ act'[e][b] = "pending"
        /\ (\E a \in ActionNames : act[e][a] = "failed") =>
             /\ ExecStatus(e) = "failed"
             /\ ExecStatus(e)' = "failed"
             /\ act'[e] = act[e] ]_vars

\* Build failed, Copy was skipped, and time went on
C10_Witness ==
  \E e \in Executions :
    /\ act[e]["BuildAction"] = "failed"
    /\ act[e]["CopyAction"] = "pending"
    /\ ExecStatus(e) = "failed"
    /\ clock >= GateTimeout

\* The number of reports an invocation has made to CodePipeline
Reports(l) == l.successes + l.failures

\* C11: the handler signals the gate before it reports the job, and a report,
\* failed or not, leaves the gate as the signal left it: no report is made
\* before the signal attempt, a step that makes a report changes neither the
\* gate nor the signals at the handle, and a gate fired by a signal stays
\* fired with that signal's status.
C11_SignalThenReport ==
  [][ /\ \A e \in Executions :
           /\ Reports(lam[e]) > 0 => lam[e].signals = 1
           /\ lam'[e].signals > lam[e].signals => Reports(lam[e]) = 0
           /\ Reports(lam'[e]) > Reports(lam[e]) =>
                /\ lam[e].signals = 1
                /\ gate' = gate
                /\ gateLog' = gateLog
      /\ gate.state = "fired" => gate' = gate ]_vars

\* The signal fired the gate, then both reports failed: the gate is as it was
C11_Witness ==
  \E e \in Executions :
    /\ lam[e].pc = "raised"
    /\ lam[e].response = "ok"
    /\ lam[e].successes = 1
    /\ lam[e].failures = 1
    /\ gate.state = "fired"
    /\ gate.status = "SUCCESS"
    /\ gate.payload.UniqueId = JobId(e)

\* C12 as stated: once a signal has been received the gate is fired, with the
\* status and payload of the first signal received.
C12_FiresOnFirstSignal ==
  gateLog # << >> =>
    /\ gate.state = "fired"
    /\ gate.payload = Head(gateLog)
    /\ gate.status = Head(gateLog).Status

\* C12 amended: with several executions signalling the one gate, the gate
\* fires at most once, on the first signal received if it is still waiting
\* then, and holds that signal's status and payload verbatim; a gate that
\* expired first stays expired; no later signal changes a fired or expired
\* gate; and every execution reports under its own job id, the report
\* deciding its own InvokeAction only.
C12_FirstSignalWins ==
  [][ /\ gate.state = "waiting" => gateLog = << >>
      /\ gate.state = "fired" =>
           /\ gate.payload = Head(gateLog)
           /\ gate.status = Head(gateLog).Status
           /\ gate' = gate
      /\ gate.state = "expired" => gate' = gate
      /\ (gate.state = "waiting" /\ gateLog' # << >>) =>
           gate'.state = "fired" /\ gate'.payload = Head(gateLog')
      /\ \A e \in Executions :
           /\ lam[e].pc # "idle" => lam[e].job_id = JobId(e)
           /\ act'[e]["InvokeAction"] # act[e]["InvokeAction"] =>
                /\ lam'[e].pc # "idle"
                /\ \A d \in Executions \ {e} :
                     /\ act'[d]["InvokeAction"] = act[d]["InvokeAction"]
                     /\ lam'[d] = lam[d]
           /\ act[e]["InvokeAction"] = "succeeded" =>
                lam[e].successes = 1 /\ lam[e].pc = "returned" ]_vars

\* Two executions signalled; the later-started one was first and the gate
\* holds its payload; both reported their own job as succeeded
C12_Witness ==
  /\ Len(gateLog) >= 2
  /\ gateLog[1].UniqueId = JobId(2)
  /\ gateLog[2].UniqueId = JobId(1)
  /\ gate.state = "fired"
  /\ gate.payload.UniqueId = JobId(2)
  /\ act[1]["InvokeAction"] = "succeeded"
  /\ act[2]["InvokeAction"] = "succeeded"

\* C13: every signal at the handle has Status SUCCESS, so the gate is never
\* fired with FAILURE; an execution that failed before Notify sends nothing,
\* and while no execution has delivered a signal the gate is waiting or
\* expired.
C13_AlwaysSuccess ==
  /\ \A k \in DOMAIN gateLog : gateLog[k].Status = "SUCCESS"
  /\ gate.status # "FAILURE"
  /\ gate.state = "fired" =>
       /\ gate.status = "SUCCESS"
       /\ \E e \in Executions :
            /\ act[e]["BuildAction"] = "succeeded"
            /\ act[e]["CopyAction"] = "succeeded"
            /\ gate.payload = SignalData(JobId(e))
  /\ \A e \in Executions :
       (\E a \in ProviderActions : act[e][a] = "failed") =>
         /\ lam[e].pc = "idle"
         /\ lam[e].signals = 0
         /\ \A k \in DOMAIN gateLog : gateLog[k].UniqueId # JobId(e)
  /\ (\A e \in Executions : lam[e].response # "ok") =>
       gate.state \in {"waiting", "expired"}

\* The only execution failed in Build and the gate expired unsignalled
C13_Witness ==
  /\ \E e \in Executions :
       /\ act[e]["BuildAction"] = "failed"
       /\ ExecStatus(e) = "failed"
  /\ \A e \in Executions : ExecStatus(e) \in {"none", "failed"}
  /\ gateLog = << >>
  /\ gate.state = "expired"

\* The constructs of the stack made so far
Constructs == { stack.constructs[i] : i \in DOMAIN stack.constructs }

\* C14: for every combination of build, demoInfrastructure and
\* completeInfrastructure the stack has the build pipeline with its wait
\* condition; the constructs given buildSuccessWaitCondition are the
\* FirehoseInfrastructure and the KinesisAnalyticsJava, made only when
\* completeInfrastructure is true (and then both are); and with neither
\* demoInfrastructure nor completeInfrastructure the build pipeline is the
\* last construct made.
C14_StackFlags ==
  LET p == stack.props
      waiting == { c \in Constructs :
                     c.buildSuccessWaitCondition # NoWaitCondition }
  IN /\ stack.pc = "returned" =>
          \E c \in Constructs :
            /\ c.type = "GithubBuildPipeline"
            /\ c.owns # NoWaitCondition
     /\ \A c \in waiting :
          /\ p.completeInfrastructure = "true"
          /\ c.type \in {"FirehoseInfrastructure", "KinesisAnalyticsJava"}
          /\ \E b \in Constructs :
               b.type = "GithubBuildPipeline" /\ b.owns = c.buildSuccessWaitCondition
     /\ (stack.pc = "returned" /\ p.completeInfrastructure = "true") =>
          { c.type : c \in waiting } =
            {"FirehoseInfrastructure", "KinesisAnalyticsJava"}
     /\ ( /\ stack.pc = "returned"
          /\ p.demoInfrastructure # "true"
          /\ p.completeInfrastructure # "true" ) =>
          stack.constructs[Len(stack.constructs)].type = "GithubBuildPipeline"

\* The constructor returned for completeInfrastructure alone, with both
\* waiting constructs made
C14_Witness ==
  /\ stack.pc = "returned"
  /\ stack.props.completeInfrastructure = "true"
  /\ stack.props.demoInfrastructure = "undefined"
  /\ stack.props.build = "false"
  /\ \E c \in Constructs : c.type = "KinesisAnalyticsJava"

====
